---- MODULE Spec2Model ----
\* rsearch integration example (examples/python/search.py): search_products
\* translates a user query through the rsearch HTTP service and executes the
\* translated predicate against PostgreSQL; main drives it over six examples.
\*
\* Text is modelled as a sequence of tokens, so that an f-string is a
\* concatenation and a "%s" placeholder is a token that can be counted.
EXTENDS Integers, Sequences, FiniteSets, TLC

VARIABLES fr, net, stmtLog, idx, errors, world

vars == <<fr, net, stmtLog, idx, errors, world>>

\* ---------------------------------------------------------------- bounds

\* Largest number of rows the store produces for one statement.
MaxRows == 2

\* ------------------------------------------------------- program constants

RSEARCH_URL == <<"http://localhost:8080">>

DB_CONFIG ==
  [host |-> "localhost", port |-> 5432, database |-> "rsearch_test",
   user |-> "rsearch", password |-> "rsearch123"]

examples ==
  << [title |-> "Simple field search", query |-> "productCode:13w42"],
     [title |-> "Boolean AND", query |-> "productCode:13w42 AND region:ca"],
     [title |-> "Range query", query |-> "rodLength:[50 TO 200]"],
     [title |-> "Comparison operator", query |-> "price:>=100"],
     [title |-> "Complex query", query |-> "(region:ca OR region:ny) AND price:<150"],
     [title |-> "Wildcard search", query |-> "name:Widget*"] >>

\* The threads that can be inside search_products. The script itself has one,
\* "main"; "other" is a second caller used by the concurrent specifications
\* and stays idle under Spec.
Callers == {"main", "other"}

\* --------------------------------------------------- environment: rsearch

\* JSON values the translation endpoint can answer with. An object lists the
\* keys it has; a key that is absent has the empty value.
Obj(keys, w, p) ==
  [kind |-> "object", keys |-> keys, whereClause |-> w, parameters |-> p]

NoJson == [kind |-> "none", keys |-> {}, whereClause |-> <<>>, parameters |-> <<>>]

Predicates ==
  { Obj({"whereClause", "parameters"}, <<"product_code = ", "%s">>, <<"13w42">>),
    Obj({"whereClause", "parameters"}, <<"product_code = ", "%s">>, <<"x' OR '1'='1">>),
    Obj({"whereClause", "parameters"}, <<"rod_length BETWEEN ", "%s", " AND ", "%s">>, <<"50">>),
    Obj({"whereClause", "parameters"}, <<"price >= ", "%s">>, <<"100", "150">>) }

Bodies ==
  Predicates \cup
  { [kind |-> "text", keys |-> {}, whereClause |-> <<>>, parameters |-> <<>>],
    [kind |-> "array", keys |-> {}, whereClause |-> <<>>, parameters |-> <<>>],
    Obj({"parameters"}, <<>>, <<"13w42">>),
    Obj({"whereClause"}, <<"product_code = ", "%s">>, <<>>) }

\* Final status codes requests.post can hand back: a redirect without a
\* Location header and 304 are not followed, so a 3xx can be final.
Statuses == {200, 304, 404, 500}

NoResponse == [status |-> 0, body |-> NoJson]

Responses == [status : Statuses, body : Bodies]

\* ----------------------------------------------------- environment: store

Columns == <<"name", "product_code", "price">>

Rows == { <<"Widget", "13w42", "100">>, <<"Gadget", "77x10", "120">> }

RECURSIVE SeqsUpTo(_, _)
SeqsUpTo(S, n) ==
  IF n = 0 THEN {<<>>}
  ELSE LET shorter == SeqsUpTo(S, n - 1)
       IN shorter \cup {Append(s, x) : s \in {q \in shorter : Len(q) = n - 1}, x \in S}

ResultSets == SeqsUpTo(Rows, MaxRows)

\* ------------------------------------------------------ Python exceptions

RequestExceptions == {"ConnectionError", "HTTPError", "JSONDecodeError"}

Psycopg2Errors == {"OperationalError", "ProgrammingError", "DataError"}

\* ------------------------------------------------------------ operators

Range(s) == {s[i] : i \in 1..Len(s)}

\* requests.Response.raise_for_status: raises HTTPError for 4xx and 5xx only.
raise_for_status(status) ==
  IF 400 <= status /\ status < 500 THEN "HTTPError"
  ELSE IF 500 <= status /\ status < 600 THEN "HTTPError"
  ELSE "none"

\* requests.Response.json: a body that is no JSON raises
\* requests.exceptions.JSONDecodeError, a RequestException.
json(body) == IF body.kind = "text" THEN "JSONDecodeError" ELSE "none"

\* translation[key]: subscripting a non-object is a TypeError, an absent key a
\* KeyError.
GetItem(v, key) ==
  IF v.kind # "object" THEN "TypeError"
  ELSE IF key \notin v.keys THEN "KeyError"
  ELSE "none"

\* Mutant of TranslateRequest: the client tidies the query (here: lower-cases
\* the boolean operator) before sending it.
TranslateRequestTidied(user_query) ==
  [url |-> RSEARCH_URL \o <<"/api/v1/translate">>,
   json |-> [schema |-> "products", database |-> "postgres",
             query |-> IF user_query = "productCode:13w42 AND region:ca"
                         THEN "productCode:13w42 and region:ca"
                         ELSE user_query]]

\* The request of lines 36-43.
TranslateRequest(user_query) ==
  [url |-> RSEARCH_URL \o <<"/api/v1/translate">>,
   json |-> [schema |-> "products", database |-> "postgres", query |-> user_query]]

RECURSIVE Interpolate(_, _)
Interpolate(text, args) ==
  IF text = <<>> THEN <<>>
  ELSE IF Head(text) = "%s" /\ args # <<>>
         THEN <<"'", Head(args), "'">> \o Interpolate(Tail(text), Tail(args))
         ELSE <<Head(text)>> \o Interpolate(Tail(text), args)

\* Mutant of Sql: the parameter values are formatted into the statement text.
SqlInterpolated(translation) ==
  <<"SELECT * FROM products WHERE ">>
    \o Interpolate(translation.whereClause, translation.parameters)

\* The statement text of line 56.
Sql(translation) == <<"SELECT * FROM products WHERE ">> \o translation.whereClause

RECURSIVE CountPlaceholders(_)
CountPlaceholders(text) ==
  IF text = <<>> THEN 0
  ELSE (IF Head(text) = "%s" THEN 1 ELSE 0) + CountPlaceholders(Tail(text))

\* psycopg2's client-side argument merge in cursor.execute: a placeholder
\* without an argument is an IndexError, an argument without a placeholder a
\* TypeError ("not all arguments converted"); neither is a psycopg2.Error.
\* Without any placeholder the arguments are never looked at.
Mogrify(sql, args) ==
  LET n == CountPlaceholders(sql)
  IN IF n > Len(args) THEN "IndexError"
     ELSE IF n > 0 /\ n < Len(args) THEN "TypeError"
     ELSE "none"

Min(a, b) == IF a < b THEN a ELSE b

\* Mutant of DictZip: the arguments of zip are swapped, dict(zip(row, columns)).
DictZipSwapped(columns, row) ==
  LET n == Min(Len(columns), Len(row))
  IN [v \in {row[j] : j \in 1..n} |->
        columns[CHOOSE j \in 1..n :
                  row[j] = v /\ \A k \in 1..n : row[k] = v => k <= j]]

\* dict(zip(columns, row)): pairs up to the shorter length, a later pair with
\* the same key replacing an earlier one.
DictZip(columns, row) ==
  LET n == Min(Len(columns), Len(row))
  IN [c \in {columns[j] : j \in 1..n} |->
        row[CHOOSE j \in 1..n :
              columns[j] = c /\ \A k \in 1..n : columns[k] = c => k <= j]]

\* The comprehension of line 61.
ToRecords(columns, rows) == [i \in 1..Len(rows) |-> DictZip(columns, rows[i])]

\* ---------------------------------------------------------------- worlds

\* What the translation service and the store can answer: the responses of the
\* endpoint and the result sets of the store. The variable world names the one
\* a run is in.
AnyWorld == [responses |-> Responses, resultSets |-> ResultSets]

\* A service that answers 200 with a predicate (two of them differ in their
\* parameters only, one has a parameter too many), 200 without the parameters
\* field, or 500; a store that finds no row or two rows.
SmallWorld ==
  [responses |->
     {r \in Responses :
        \/ r.status = 200 /\ r.body \in Predicates
             /\ CountPlaceholders(r.body.whereClause) <= Len(r.body.parameters)
        \/ r.status = 200 /\ r.body.kind = "object" /\ r.body.keys = {"whereClause"}
        \/ r.status = 500 /\ r.body.kind = "text"},
   resultSets |-> {rs \in ResultSets : Len(rs) \in {0, 2} /\ \A i \in 1..Len(rs) : rs[i] = rs[1] => i = 1}]

Worlds == [any |-> AnyWorld, small |-> SmallWorld]

\* ---------------------------------------------------------------- frames

\* The locals of one activation of search_products, with the state of the
\* connection and cursor objects it holds.
IdleFrame ==
  [pc |-> "idle", user_query |-> "", response |-> NoResponse,
   translation |-> NoJson, conn |-> "unset", cur |-> "unset", sql |-> <<>>,
   args |-> <<>>, hasRs |-> FALSE, rs |-> <<>>, columns |-> <<>>,
   results |-> <<>>, exc |-> "none", origin |-> "none", handler |-> "none",
   hasRet |-> FALSE, ret |-> <<>>, connId |-> 0, curConn |-> 0, calls |-> <<>>]

\* A call the activation made into requests or psycopg2, with what the
\* environment answered: "ok", the error it failed with, or "unasked" when the
\* library failed before asking; a post's response and an execute's rows.
CallOf(op, answer, response, rows) ==
  [op |-> op, answer |-> answer, response |-> response, rows |-> rows]

Called(f, op, answer, response, rows) ==
  [f EXCEPT !.calls = Append(@, CallOf(op, answer, response, rows))]

\* psycopg2.connect makes a new connection object on every call: its identity
\* differs from that of every connection an activation still holds.
NewConnId ==
  CHOOSE i \in 1..Cardinality(Callers) :
    /\ \A t \in Callers : fr[t].connId # i
    /\ \A j \in 1..(i - 1) : \E t \in Callers : fr[t].connId = j

NewFrame(user_query) == [IdleFrame EXCEPT !.pc = "post", !.user_query = user_query]

\* An exception raised inside the try block, in the translation or the store
\* part of it.
Raise(f, cls, origin) == [f EXCEPT !.pc = "except", !.exc = cls, !.origin = origin]

Set(t, f) == fr' = [fr EXCEPT ![t] = f]

Init ==
  /\ fr = [t \in Callers |-> IdleFrame]
  /\ net = [t \in Callers |-> <<>>]
  /\ stmtLog = {}
  /\ idx = 1
  /\ errors = 0
  /\ world = "any"

\* ------------------------------------------- search_products on its own

\* How an invocation ends when it fails with an exception of class cls.
Failed(cls) ==
  [pc |-> "raised", exc |-> cls,
   handler |-> IF cls \in RequestExceptions THEN "rsearch"
               ELSE IF cls \in Psycopg2Errors THEN "Database"
               ELSE "none",
   ret |-> <<>>]

\* The environment's answer to the call op among calls.
Answer(calls, op) == calls[CHOOSE i \in 1..Len(calls) : calls[i].op = op]

\* Lines 34-73 read top to bottom: how one invocation, running alone, ends
\* when the service and the store answer its calls as in calls.
Alone(calls) ==
  LET post == Answer(calls, "post")
      body == post.response.body
  IN IF post.answer # "ok" THEN Failed(post.answer)
     ELSE IF raise_for_status(post.response.status) # "none"
       THEN Failed(raise_for_status(post.response.status))
     ELSE IF json(body) # "none" THEN Failed(json(body))
     ELSE IF GetItem(body, "whereClause") # "none" THEN Failed(GetItem(body, "whereClause"))
     ELSE IF GetItem(body, "parameters") # "none" THEN Failed(GetItem(body, "parameters"))
     ELSE IF Answer(calls, "connect").answer # "ok" THEN Failed(Answer(calls, "connect").answer)
     ELSE IF Mogrify(Sql(body), body.parameters) # "none"
       THEN Failed(Mogrify(Sql(body), body.parameters))
     ELSE IF Answer(calls, "execute").answer # "ok" THEN Failed(Answer(calls, "execute").answer)
     ELSE IF Answer(calls, "fetchall").answer # "ok" THEN Failed(Answer(calls, "fetchall").answer)
     ELSE [pc |-> "returned", exc |-> "none", handler |-> "none",
           ret |-> ToRecords(Columns, Answer(calls, "execute").rows)]

\* How an activation ended.
Outcome(f) == [pc |-> f.pc, exc |-> f.exc, handler |-> f.handler, ret |-> f.ret]

\* ------------------------------------------------------- search_products

\* Lines 36-43: the translation request is posted; it fails in the transport
\* or is answered.
Post(t) ==
  /\ fr[t].pc = "post"
  /\ net' = [net EXCEPT ![t] = Append(@, TranslateRequest(fr[t].user_query))]
  /\ \/ Set(t, Raise(Called(fr[t], "post", "ConnectionError", NoResponse, <<>>),
                     "ConnectionError", "translation"))
     \/ \E r \in Worlds[world].responses :
          Set(t, [Called(fr[t], "post", "ok", r, <<>>)
                    EXCEPT !.pc = "raise_for_status", !.response = r])
  /\ UNCHANGED <<stmtLog, idx, errors, world>>

\* Line 44.
RaiseForStatus(t) ==
  /\ fr[t].pc = "raise_for_status"
  /\ IF raise_for_status(fr[t].response.status) # "none"
       THEN Set(t, Raise(fr[t], raise_for_status(fr[t].response.status), "translation"))
       ELSE Set(t, [fr[t] EXCEPT !.pc = "json"])
  /\ UNCHANGED <<net, stmtLog, idx, errors, world>>

\* Line 45.
Json(t) ==
  /\ fr[t].pc = "json"
  /\ IF json(fr[t].response.body) # "none"
       THEN Set(t, Raise(fr[t], json(fr[t].response.body), "translation"))
       ELSE Set(t, [fr[t] EXCEPT !.pc = "print", !.translation = fr[t].response.body])
  /\ UNCHANGED <<net, stmtLog, idx, errors, world>>

\* Lines 47-50: the two subscripts are evaluated in order.
PrintTranslation(t) ==
  LET f == fr[t]
      e1 == GetItem(f.translation, "whereClause")
      e2 == GetItem(f.translation, "parameters")
  IN /\ f.pc = "print"
     /\ IF e1 # "none" THEN Set(t, Raise(f, e1, "translation"))
        ELSE IF e2 # "none" THEN Set(t, Raise(f, e2, "translation"))
        ELSE Set(t, [f EXCEPT !.pc = "connect"])
     /\ UNCHANGED <<net, stmtLog, idx, errors, world>>

\* Mutant of Connect: one module-level connection, made by the first caller
\* that needs it and used by whoever comes while it is open.
ConnectShared(t) ==
  /\ fr[t].pc = "connect"
  /\ \/ Set(t, Raise(Called(fr[t], "connect", "OperationalError", NoResponse, <<>>),
                     "OperationalError", "store"))
     \/ Set(t, [Called(fr[t], "connect", "ok", NoResponse, <<>>)
                  EXCEPT !.pc = "cursor", !.conn = "open",
                         !.connId = IF \E u \in Callers : fr[u].conn = "open"
                                      THEN fr[CHOOSE u \in Callers : fr[u].conn = "open"].connId
                                      ELSE NewConnId])
  /\ UNCHANGED <<net, stmtLog, idx, errors, world>>

\* Line 53: the store refuses the connection or opens one.
Connect(t) ==
  /\ fr[t].pc = "connect"
  /\ \/ Set(t, Raise(Called(fr[t], "connect", "OperationalError", NoResponse, <<>>),
                     "OperationalError", "store"))
     \/ Set(t, [Called(fr[t], "connect", "ok", NoResponse, <<>>)
                  EXCEPT !.pc = "cursor", !.conn = "open", !.connId = NewConnId])
  /\ UNCHANGED <<net, stmtLog, idx, errors, world>>

\* Line 54.
Cursor(t) ==
  /\ fr[t].pc = "cursor"
  /\ Set(t, [Called(fr[t], "cursor", "ok", NoResponse, <<>>)
               EXCEPT !.pc = "execute", !.cur = "open", !.curConn = fr[t].connId])
  /\ UNCHANGED <<net, stmtLog, idx, errors, world>>

\* Mutant of Execute: the parameters are collected in a module-level list that
\* is never emptied, so from the second statement on an old value is still in
\* front of them.
ExecuteStaleArgs(t) ==
  LET f == fr[t]
      sql == Sql(f.translation)
      args == IF stmtLog = {} THEN f.translation.parameters
              ELSE <<"stale">> \o f.translation.parameters
      g == [f EXCEPT !.sql = sql, !.args = args]
  IN /\ f.pc = "execute"
     /\ stmtLog' = stmtLog \cup
          {[whereClause |-> f.translation.whereClause,
            parameters |-> f.translation.parameters, sql |-> sql, args |-> args]}
     /\ IF Mogrify(sql, args) # "none"
          THEN Set(t, Raise(Called(g, "execute", "unasked", NoResponse, <<>>),
                            Mogrify(sql, args), "store"))
          ELSE \/ Set(t, Raise(Called(g, "execute", "ProgrammingError", NoResponse, <<>>),
                               "ProgrammingError", "store"))
               \/ \E rows \in Worlds[world].resultSets :
                    Set(t, [Called(g, "execute", "ok", NoResponse, rows)
                              EXCEPT !.pc = "description", !.hasRs = TRUE, !.rs = rows])
     /\ UNCHANGED <<net, idx, errors, world>>

\* Lines 56-57: the statement is composed and handed to cursor.execute with
\* the parameters; the driver merges the arguments, then the store rejects the
\* statement or answers with a result set.
Execute(t) ==
  LET f == fr[t]
      sql == Sql(f.translation)
      args == f.translation.parameters
      g == [f EXCEPT !.sql = sql, !.args = args]
  IN /\ f.pc = "execute"
     /\ stmtLog' = stmtLog \cup
          {[whereClause |-> f.translation.whereClause,
            parameters |-> f.translation.parameters, sql |-> sql, args |-> args]}
     /\ IF Mogrify(sql, args) # "none"
          THEN Set(t, Raise(Called(g, "execute", "unasked", NoResponse, <<>>),
                            Mogrify(sql, args), "store"))
          ELSE \/ Set(t, Raise(Called(g, "execute", "ProgrammingError", NoResponse, <<>>),
                               "ProgrammingError", "store"))
               \/ \E rows \in Worlds[world].resultSets :
                    Set(t, [Called(g, "execute", "ok", NoResponse, rows)
                              EXCEPT !.pc = "description", !.hasRs = TRUE, !.rs = rows])
     /\ UNCHANGED <<net, idx, errors, world>>

\* Line 60: the column names of the result-set metadata.
Description(t) ==
  /\ fr[t].pc = "description"
  /\ Set(t, [fr[t] EXCEPT !.pc = "fetchall", !.columns = Columns])
  /\ UNCHANGED <<net, stmtLog, idx, errors, world>>

\* Mutant of Fetchall: a failure on row k is swallowed and the rows before it
\* are kept.
FetchallPartial(t) ==
  /\ fr[t].pc = "fetchall"
  /\ \/ \E k \in 1..Len(fr[t].rs) :
          Set(t, [fr[t] EXCEPT !.pc = "cur_close",
                               !.results = ToRecords(fr[t].columns, SubSeq(fr[t].rs, 1, k - 1))])
     \/ Set(t, [fr[t] EXCEPT !.pc = "cur_close",
                             !.results = ToRecords(fr[t].columns, fr[t].rs)])
  /\ UNCHANGED <<net, stmtLog, idx, errors, world>>

\* Line 61: fetchall delivers every row or fails on one of them; the list is
\* bound only when fetchall has returned.
Fetchall(t) ==
  /\ fr[t].pc = "fetchall"
  /\ \/ \E k \in 1..Len(fr[t].rs) :
          Set(t, Raise(Called(fr[t], "fetchall", "DataError", NoResponse, <<>>),
                       "DataError", "store"))
     \/ Set(t, [Called(fr[t], "fetchall", "ok", NoResponse, <<>>)
                  EXCEPT !.pc = "cur_close",
                         !.results = ToRecords(fr[t].columns, fr[t].rs)])
  /\ UNCHANGED <<net, stmtLog, idx, errors, world>>

\* Mutant of CurClose: the cursor is left open and only the connection closed.
CurCloseForgotten(t) ==
  /\ fr[t].pc = "cur_close"
  /\ Set(t, [fr[t] EXCEPT !.pc = "conn_close"])
  /\ UNCHANGED <<net, stmtLog, idx, errors, world>>

\* Line 63.
CurClose(t) ==
  /\ fr[t].pc = "cur_close"
  /\ Set(t, [Called(fr[t], "cur.close", "ok", NoResponse, <<>>)
               EXCEPT !.pc = "conn_close", !.cur = "closed"])
  /\ UNCHANGED <<net, stmtLog, idx, errors, world>>

\* Line 64.
ConnClose(t) ==
  /\ fr[t].pc = "conn_close"
  /\ Set(t, [Called(fr[t], "conn.close", "ok", NoResponse, <<>>)
               EXCEPT !.pc = "return", !.conn = "closed"])
  /\ UNCHANGED <<net, stmtLog, idx, errors, world>>

\* Line 66.
Return(t) ==
  /\ fr[t].pc = "return"
  /\ Set(t, [fr[t] EXCEPT !.pc = "returned", !.hasRet = TRUE, !.ret = fr[t].results])
  /\ UNCHANGED <<net, stmtLog, idx, errors, world>>

\* Mutant of ExceptRequestException: the first request failure is retried.
ExceptRequestExceptionRetry(t) ==
  /\ fr[t].pc = "except"
  /\ fr[t].exc \in RequestExceptions
  /\ IF Len(net[t]) < 2
       THEN Set(t, [fr[t] EXCEPT !.pc = "post", !.exc = "none", !.origin = "none"])
       ELSE Set(t, [fr[t] EXCEPT !.pc = "raised", !.handler = "rsearch"])
  /\ UNCHANGED <<net, stmtLog, idx, errors, world>>

\* Lines 68-70: a request failure is reported and re-raised.
ExceptRequestException(t) ==
  /\ fr[t].pc = "except"
  /\ fr[t].exc \in RequestExceptions
  /\ Set(t, [fr[t] EXCEPT !.pc = "raised", !.handler = "rsearch"])
  /\ UNCHANGED <<net, stmtLog, idx, errors, world>>

\* Mutant of ExceptPsycopg2Error: the store failure is reported and an empty
\* list returned.
ExceptPsycopg2ErrorSwallow(t) ==
  /\ fr[t].pc = "except"
  /\ fr[t].exc \notin RequestExceptions
  /\ fr[t].exc \in Psycopg2Errors
  /\ Set(t, [fr[t] EXCEPT !.pc = "returned", !.handler = "Database",
                          !.hasRet = TRUE, !.ret = <<>>])
  /\ UNCHANGED <<net, stmtLog, idx, errors, world>>

\* Lines 71-73: a store failure is reported and re-raised.
ExceptPsycopg2Error(t) ==
  /\ fr[t].pc = "except"
  /\ fr[t].exc \notin RequestExceptions
  /\ fr[t].exc \in Psycopg2Errors
  /\ Set(t, [fr[t] EXCEPT !.pc = "raised", !.handler = "Database"])
  /\ UNCHANGED <<net, stmtLog, idx, errors, world>>

\* Lines 34-73: an exception neither except clause names leaves the try
\* statement as it is.
Propagate(t) ==
  /\ fr[t].pc = "except"
  /\ fr[t].exc \notin RequestExceptions
  /\ fr[t].exc \notin Psycopg2Errors
  /\ Set(t, [fr[t] EXCEPT !.pc = "raised"])
  /\ UNCHANGED <<net, stmtLog, idx, errors, world>>

\* ------------------------------------------------------------------ main

\* Lines 88-91: the next example's query is passed to search_products.
MainCall ==
  /\ idx <= Len(examples)
  /\ fr["main"].pc = "idle"
  /\ Set("main", NewFrame(examples[idx].query))
  /\ net' = [net EXCEPT !["main"] = <<>>]
  /\ UNCHANGED <<stmtLog, idx, errors, world>>

\* Lines 92-97: the call returned; the count and the first product are shown.
MainFound ==
  /\ fr["main"].pc = "returned"
  /\ Set("main", IdleFrame)
  /\ idx' = idx + 1
  /\ UNCHANGED <<net, stmtLog, errors, world>>

\* Mutant of MainExcept: the exception is shown and ends the loop.
MainExceptAbort ==
  /\ fr["main"].pc = "raised"
  /\ Set("main", IdleFrame)
  /\ idx' = Len(examples) + 1
  /\ errors' = errors + 1
  /\ UNCHANGED <<net, stmtLog, world>>

\* Lines 99-100: the call raised; the error is shown (errors counts the
\* "Error:" lines printed) and the loop goes on.
MainExcept ==
  /\ fr["main"].pc = "raised"
  /\ Set("main", IdleFrame)
  /\ idx' = idx + 1
  /\ errors' = errors + 1
  /\ UNCHANGED <<net, stmtLog, world>>

Next ==
  \/ MainCall
  \/ MainFound
  \/ MainExcept
  \/ Post("main")
  \/ RaiseForStatus("main")
  \/ Json("main")
  \/ PrintTranslation("main")
  \/ Connect("main")
  \/ Cursor("main")
  \/ Execute("main")
  \/ Description("main")
  \/ Fetchall("main")
  \/ CurClose("main")
  \/ ConnClose("main")
  \/ Return("main")
  \/ ExceptRequestException("main")
  \/ ExceptPsycopg2Error("main")
  \/ Propagate("main")

Spec == Init /\ [][Next]_vars

\* ------------------------------------------------------------ progress

\* The steps that wait for nobody: once enabled they are taken. The three
\* blocking calls are not among them: requests.post is called without a
\* timeout argument (lines 36-43), psycopg2.connect without connect_timeout
\* (line 53, DB_CONFIG) and cursor.execute with no statement timeout (line
\* 57), so each returns only if and when the other side answers.
Progress(t) ==
  \/ RaiseForStatus(t)
  \/ Json(t)
  \/ PrintTranslation(t)
  \/ Cursor(t)
  \/ Description(t)
  \/ Fetchall(t)
  \/ CurClose(t)
  \/ ConnClose(t)
  \/ Return(t)
  \/ ExceptRequestException(t)
  \/ ExceptPsycopg2Error(t)
  \/ Propagate(t)

MainProgress == MainCall \/ MainFound \/ MainExcept \/ Progress("main")

\* The script with the interpreter running it: main's own steps are taken.
SpecLive == Init /\ [][Next]_vars /\ WF_vars(MainProgress)

\* The script when, in addition, the service and the store answer every call.
SpecFair == Init /\ [][Next]_vars /\ WF_vars(Next)

\* --------------------------------------------------- concurrent callers

\* The queries concurrent callers pass.
Queries == {examples[1].query, examples[2].query}

\* Any thread calls search_products(q).
Call(t, q) ==
  /\ fr[t].pc = "idle"
  /\ Set(t, NewFrame(q))
  /\ net' = [net EXCEPT ![t] = <<>>]
  /\ UNCHANGED <<stmtLog, idx, errors, world>>

\* The caller has taken the result or the exception; the activation is gone.
Finish(t) ==
  /\ fr[t].pc \in {"returned", "raised"}
  /\ Set(t, IdleFrame)
  /\ net' = [net EXCEPT ![t] = <<>>]
  /\ UNCHANGED <<stmtLog, idx, errors, world>>

Step(t) ==
  \/ \E q \in Queries : Call(t, q)
  \/ Finish(t)
  \/ Post(t)
  \/ RaiseForStatus(t)
  \/ Json(t)
  \/ PrintTranslation(t)
  \/ Connect(t)
  \/ Cursor(t)
  \/ Execute(t)
  \/ Description(t)
  \/ Fetchall(t)
  \/ CurClose(t)
  \/ ConnClose(t)
  \/ Return(t)
  \/ ExceptRequestException(t)
  \/ ExceptPsycopg2Error(t)
  \/ Propagate(t)

NextConc == \E t \in Callers : Step(t)

InitConc ==
  /\ fr = [t \in Callers |-> IdleFrame]
  /\ net = [t \in Callers |-> <<>>]
  /\ stmtLog = {}
  /\ idx = 1
  /\ errors = 0
  /\ world = "small"

\* Threads calling search_products again and again, interleaved at every
\* statement.
SpecConc == InitConc /\ [][NextConc]_vars

\* ---------------------------------------------------------------- claims

Terminal(f) == f.pc \in {"returned", "raised"}

\* The invocation got a response from the translation endpoint.
Answered(f) == f.pc \notin {"idle", "post"} /\ f.response # NoResponse

\* The answer is the one the interface describes: a 2xx status and a JSON
\* object with both fields.
WellFormed(r) ==
  /\ r.status >= 200 /\ r.status < 300
  /\ r.body.kind = "object"
  /\ {"whereClause", "parameters"} \subseteq r.body.keys

\* C1: when search_products has returned or raised, the connection it opened
\* is closed.
C1_ConnectionClosedOnEveryExit ==
  \A t \in Callers : Terminal(fr[t]) => fr[t].conn # "open"

\* C2: a store connection is opened (or asked for) only in an invocation whose
\* translation answer had a success status and a body with both fields.
C2_ConnectOnlyAfterTranslation ==
  \A t \in Callers :
    (fr[t].conn # "unset" \/ fr[t].pc = "cursor" \/ fr[t].origin = "store")
      => Answered(fr[t]) /\ WellFormed(fr[t].response)

\* C3: an answer with a non-2xx status, an unparsable body or a body lacking a
\* field ends the invocation in the translation-failure handler.
C3_BadAnswerIsTranslationFailure ==
  \A t \in Callers :
    (Terminal(fr[t]) /\ Answered(fr[t]) /\ ~WellFormed(fr[t].response))
      => fr[t].pc = "raised" /\ fr[t].handler = "rsearch"

\* C4: a well-formed answer whose placeholder count differs from its parameter
\* count ends the invocation in the store-failure handler.
C4_ArityMismatchIsExecutionFailure ==
  \A t \in Callers :
    (/\ Terminal(fr[t])
     /\ Answered(fr[t])
     /\ WellFormed(fr[t].response)
     /\ CountPlaceholders(fr[t].response.body.whereClause)
          # Len(fr[t].response.body.parameters))
      => fr[t].pc = "raised" /\ fr[t].handler = "Database"

\* C5: a failed invocation ends in exactly one of the two handlers, the one of
\* the phase the failure arose in.
C5_FailureDomainMatchesPhase ==
  \A t \in Callers :
    fr[t].pc = "raised" =>
      /\ fr[t].handler \in {"rsearch", "Database"}
      /\ fr[t].origin = "translation" => fr[t].handler = "rsearch"
      /\ fr[t].origin = "store" => fr[t].handler = "Database"

\* C6: a finished invocation delivered a record for every row of the result
\* set, or raised and delivered nothing; before it finishes nothing is
\* delivered.
C6_AllRowsOrNothing ==
  \A t \in Callers :
    /\ fr[t].pc = "returned" =>
         fr[t].hasRet /\ fr[t].hasRs /\ Len(fr[t].ret) = Len(fr[t].rs)
    /\ fr[t].pc # "returned" => ~fr[t].hasRet /\ fr[t].ret = <<>>

\* A fetch failed on a result set of two rows and the invocation raised.
C6_Witness ==
  /\ fr["main"].pc = "raised"
  /\ fr["main"].exc = "DataError"
  /\ fr["main"].hasRs
  /\ Len(fr["main"].rs) = 2
  /\ ~fr["main"].hasRet

\* C7: once past the post, an invocation has made exactly one translation
\* request, for its own query, whatever failed afterwards; before the post it
\* has made none.
C7_ExactlyOneTranslationRequest ==
  \A t \in Callers :
    /\ fr[t].pc = "post" => net[t] = <<>>
    /\ fr[t].pc \notin {"idle", "post"} =>
         Len(net[t]) = 1 /\ net[t][1].json.query = fr[t].user_query

\* A later example's invocation failed in the store after its one request.
C7_Witness ==
  /\ idx >= 2
  /\ fr["main"].pc = "raised"
  /\ fr["main"].origin = "store"
  /\ Len(net["main"]) = 1

\* C8: every statement handed to cursor.execute is the fixed SELECT followed
\* by the whereClause, with the parameters as the separate argument; two
\* statements with the same whereClause have the same text whatever their
\* parameters.
C8_StatementIndependentOfParameters ==
  \A e \in stmtLog :
    /\ e.sql = <<"SELECT * FROM products WHERE ">> \o e.whereClause
    /\ e.args = e.parameters
    /\ \A d \in stmtLog : d.whereClause = e.whereClause => d.sql = e.sql

\* Two statements were executed with one whereClause and different parameters.
C8_Witness ==
  \E e, d \in stmtLog : e.whereClause = d.whereClause /\ e.parameters # d.parameters

\* C9: a returned sequence has one record per fetched row, in the rows'
\* order, each mapping every column name to the row's value in that column;
\* after an execution that matched no row nothing is raised.
C9_RecordsMatchRows ==
  \A t \in Callers :
    /\ fr[t].pc = "returned" =>
         /\ Len(fr[t].ret) = Len(fr[t].rs)
         /\ \A i \in 1..Len(fr[t].rs) :
              /\ DOMAIN fr[t].ret[i] = Range(Columns)
              /\ \A j \in 1..Len(Columns) : fr[t].ret[i][Columns[j]] = fr[t].rs[i][j]
    /\ (fr[t].hasRs /\ fr[t].rs = <<>>) => fr[t].pc \notin {"except", "raised"}

\* Two different rows were fetched and returned.
C9_Witness ==
  /\ fr["main"].pc = "returned"
  /\ Len(fr["main"].rs) = 2
  /\ fr["main"].rs[1] # fr["main"].rs[2]
  /\ Len(fr["main"].ret) = 2

\* The state of the pipeline's state machine an activation is in. A raised
\* exception is in flight in the phase it arose in until a handler, or none,
\* has let it out.
Phase(f) ==
  CASE f.pc = "idle" -> "Idle"
    [] f.pc \in {"post", "raise_for_status", "json", "print"} -> "Translating"
    [] f.pc = "connect" -> "Translated"
    [] f.pc \in {"cursor", "execute", "description", "fetchall", "cur_close",
                 "conn_close", "return"} -> "Executing"
    [] f.pc = "except" -> IF f.origin = "translation" THEN "Translating" ELSE "Executing"
    [] f.pc = "returned" -> "Completed"
    [] f.pc = "raised" ->
         IF f.handler = "rsearch" THEN "TranslationFailure"
         ELSE IF f.handler = "Database" THEN "ExecutionFailure"
         ELSE "Failure"

\* The moves of the linear state machine; a finished activation is discarded
\* by its caller, which is when the next one is idle.
PhaseMoves ==
  { <<"Idle", "Translating">>, <<"Translating", "TranslationFailure">>,
    <<"Translating", "Translated">>, <<"Translated", "Executing">>,
    <<"Executing", "ExecutionFailure">>, <<"Executing", "Completed">>,
    <<"TranslationFailure", "Idle">>, <<"ExecutionFailure", "Idle">>,
    <<"Completed", "Idle">> }

\* C10: every step of an invocation stays in its state or makes a move of the
\* linear state machine, an invocation that has finished is in
\* TranslationFailure, ExecutionFailure or Completed, and only Completed
\* carries records.
C10_LinearStateMachine ==
  [][\A t \in Callers :
       /\ Phase(fr[t]') = Phase(fr[t]) \/ <<Phase(fr[t]), Phase(fr[t]')>> \in PhaseMoves
       /\ Terminal(fr[t]') =>
            Phase(fr[t]') \in {"TranslationFailure", "ExecutionFailure", "Completed"}
       /\ fr[t]'.hasRet => Phase(fr[t]') = "Completed"]_vars

\* C11: under every interleaving of concurrent invocations, a step of one
\* caller leaves the other's activation and request log as they were, no two
\* activations hold the same connection, a cursor is on its own activation's
\* connection, and a finished invocation ended as it would have alone with the
\* same answers from the service and the store.
C11_ConcurrentInvocationsIndependent ==
  [][\A t \in Callers :
       /\ \A u \in Callers \ {t} :
            /\ fr[t]' # fr[t] => fr[u]' = fr[u] /\ net[u]' = net[u]
            /\ fr[t]'.connId # 0 => fr[u]'.connId # fr[t]'.connId
       /\ fr[t]'.cur # "unset" => fr[t]'.curConn = fr[t]'.connId
       /\ Terminal(fr[t]') => Outcome(fr[t]') = Alone(fr[t]'.calls)]_vars

\* One caller has returned two rows while the other, holding its own open
\* connection, is about to fetch.
C11_Witness ==
  /\ fr["main"].pc = "returned"
  /\ Len(fr["main"].ret) = 2
  /\ fr["other"].pc = "fetchall"
  /\ fr["other"].conn = "open"
  /\ fr["other"].connId # fr["main"].connId

\* C12: an invocation in which a call failed or an exception was raised is
\* on its way out with that exception or has raised it, and returns nothing;
\* an invocation whose handler ran has raised.
C12_NoErrorSwallowed ==
  \A t \in Callers :
    /\ (fr[t].exc # "none" \/ \E i \in 1..Len(fr[t].calls) : fr[t].calls[i].answer # "ok")
         => fr[t].pc \in {"except", "raised"} /\ fr[t].exc # "none" /\ ~fr[t].hasRet
    /\ fr[t].handler # "none" => fr[t].pc = "raised"

\* The store rejected the statement; the store handler ran and re-raised.
C12_Witness ==
  /\ fr["main"].pc = "raised"
  /\ fr["main"].handler = "Database"
  /\ fr["main"].exc = "ProgrammingError"

\* C13: an invocation that has started reaches a terminal state: it returns
\* or raises.
C13_EveryInvocationTerminates ==
  \A t \in Callers : (fr[t].pc # "idle") ~> Terminal(fr[t])

\* C14: every translation request carries exactly the fields schema, database
\* and query, with schema "products", database "postgres" and as query the
\* string the caller passed, which for main is the current example's query.
C14_RequestCarriesQueryVerbatim ==
  \A t \in Callers :
    fr[t].pc # "idle" =>
      /\ t = "main" => fr[t].user_query = examples[idx].query
      /\ \A i \in 1..Len(net[t]) :
           /\ DOMAIN net[t][i].json = {"schema", "database", "query"}
           /\ net[t][i].json.schema = "products"
           /\ net[t][i].json.database = "postgres"
           /\ net[t][i].json.query = fr[t].user_query

\* The fifth example's query, with its parentheses and operators, has been
\* sent.
C14_Witness ==
  /\ idx = 5
  /\ fr["main"].pc = "raise_for_status"
  /\ Len(net["main"]) = 1
  /\ net["main"][1].json.query = "(region:ca OR region:ny) AND price:<150"

\* The environment was asked by the call op of calls.
Asked(calls, op) == \E i \in 1..Len(calls) : calls[i].op = op /\ calls[i].answer # "unasked"

\* Two finished invocations got the same answers: the same answer to the post
\* and, wherever both asked the store, the same answer from it.
SameAnswers(f, g) ==
  /\ Answer(f.calls, "post") = Answer(g.calls, "post")
  /\ \A op \in {"connect", "execute", "fetchall"} :
       (Asked(f.calls, op) /\ Asked(g.calls, op)) => Answer(f.calls, op) = Answer(g.calls, op)

\* C15: two finished invocations with the same query and the same answers
\* sent the same request, executed the same statement text with the same
\* parameters and ended alike, whatever ran before them.
C15_NoNondeterminismOfItsOwn ==
  \A t, u \in Callers :
    (/\ Terminal(fr[t]) /\ Terminal(fr[u])
     /\ fr[t].user_query = fr[u].user_query
     /\ SameAnswers(fr[t], fr[u]))
      => /\ net[t] = net[u]
         /\ fr[t].sql = fr[u].sql
         /\ fr[t].args = fr[u].args
         /\ Outcome(fr[t]) = Outcome(fr[u])

\* After other statements had been executed, two invocations with the same
\* query and the same answers both returned two rows.
C15_Witness ==
  /\ fr["main"].pc = "returned" /\ fr["other"].pc = "returned"
  /\ fr["main"].user_query = fr["other"].user_query
  /\ SameAnswers(fr["main"], fr["other"])
  /\ Len(fr["main"].ret) = 2
  /\ Cardinality(stmtLog) >= 2

\* The places of the calls op in calls.
Places(calls, op) == {i \in 1..Len(calls) : calls[i].op = op}

\* C16: an invocation that returned made exactly one connect, one execute,
\* one fetchall, one cursor close and one connection close, the fetch before
\* the cursor's close and that before the connection's, and left both closed.
C16_ClosedOnceInOrderOnSuccess ==
  \A t \in Callers :
    fr[t].pc = "returned" =>
      /\ \A op \in {"connect", "cursor", "execute", "fetchall", "cur.close", "conn.close"} :
           Cardinality(Places(fr[t].calls, op)) = 1
      /\ \A i \in Places(fr[t].calls, "fetchall"), j \in Places(fr[t].calls, "cur.close"),
            k \in Places(fr[t].calls, "conn.close") : i < j /\ j < k
      /\ \A i \in Places(fr[t].calls, "connect"), j \in Places(fr[t].calls, "execute") : i < j
      /\ fr[t].cur = "closed"
      /\ fr[t].conn = "closed"
      /\ Len(fr[t].ret) = Len(fr[t].rs)

\* An invocation returned two rows with its cursor and connection closed.
C16_Witness ==
  /\ fr["main"].pc = "returned"
  /\ Len(fr["main"].ret) = 2
  /\ fr["main"].conn = "closed"
  /\ fr["main"].cur = "closed"

\* C17: main calls search_products only with the query of the current
\* example, moves to the next example exactly when that call has returned or
\* raised, whatever it raised, and so goes through the examples one by one in
\* list order; when every call comes back, the loop ends after the last
\* example.
C17_MainAttemptsEveryExample ==
  /\ [][/\ (fr["main"].pc = "idle" /\ fr["main"]'.pc # "idle")
             => idx <= Len(examples) /\ idx' = idx
                  /\ fr["main"]'.user_query = examples[idx].query
        /\ idx' # idx
             => idx' = idx + 1 /\ Terminal(fr["main"]) /\ fr["main"]'.pc = "idle"
        /\ (Terminal(fr["main"]) /\ fr["main"]' # fr["main"]) => idx' = idx + 1
        /\ errors' # errors => errors' = errors + 1 /\ fr["main"].pc = "raised"]_vars
  /\ <>[](idx = Len(examples) + 1 /\ fr["main"].pc = "idle")

\* All six examples failed and the loop has ended.
C17_Witness ==
  /\ idx = Len(examples) + 1
  /\ errors = Len(examples)
  /\ fr["main"].pc = "idle"

====
